---- MODULE Spec2Model ----
(***************************************************************************)
(* Model of DotML.Utils/Safetensor/st_display.py                           *)
(*                                                                         *)
(*   5  tensors = {}                                                       *)
(*   6  for path in sys.argv[1:]:                                          *)
(*   7      with safe_open(path, framework="pt", device="cpu") as f:       *)
(*   8          for k in f.keys():                                         *)
(*   9              tensors[k] = f.get_tensor(k)                           *)
(*  10  print(tensors)                                                     *)
(*                                                                         *)
(* The safetensors library is the environment: a path either opens as a    *)
(* container or safe_open raises; a container reports its names in an      *)
(* order of its own choosing; get_tensor returns the stored value or       *)
(* raises on an unreadable entry.                                          *)
(***************************************************************************)
EXTENDS Integers, Sequences, FiniteSets, TLC

\* Longest argument list explored.
MaxPaths == 2

\* Tensor names a container may hold, and the opaque tensor values.
Names == {"a", "b"}
Values == {"u", "v"}

\* Number of runs of the script on the same input that are compared.
MaxRuns == 2

\* Path strings that may appear on the command line.
PathIds == 1..MaxPaths

VARIABLES
    argv,      \* sys.argv[1:], a sequence of paths
    files,     \* the file system: path -> what safe_open finds there
    tensors,   \* the accumulated dict, name -> value
    pc,        \* position of the script
    i,         \* number of paths the outer for loop has taken from argv
    path,      \* loop variable of line 6
    f,         \* handle bound by the with statement (0: none)
    handles,   \* handles currently open in the library
    keys,      \* names the inner for loop has still to visit, in order
    stdout,    \* what has been written to standard output
    error,     \* the uncaught exception, "" while there is none
    opens,     \* paths passed to safe_open so far, in call order
    gets,      \* number of get_tensor calls that returned a value
    closed,    \* handles released so far, in order
    enum,      \* the name lists keys() has returned so far, in call order
    run,       \* which run of the script this is
    prev,      \* the mapping printed by the previous run
    prevEnum   \* the name lists keys() returned in the previous run

vars == <<argv, files, tensors, pc, i, path, f, handles, keys, stdout,
          error, opens, gets, closed, enum, run, prev, prevEnum>>

----------------------------------------------------------------------------
\* The environment

Range(s) == {s[n] : n \in DOMAIN s}

EmptyDict == [n \in {} |-> "u"]

\* A file that is no container: safe_open raises on it.
NotAContainer == [valid |-> FALSE, good |-> EmptyDict, bad |-> {}]

\* A container stores a value for each name in DOMAIN good; the entries named
\* in bad are listed by keys() but cannot be read.
Containers ==
    {[valid |-> TRUE, good |-> g, bad |-> b] :
        g \in UNION {[S -> Values] : S \in SUBSET Names}, b \in SUBSET Names}

FileContents ==
    {NotAContainer} \cup {c \in Containers : c.bad \cap DOMAIN c.good = {}}

NamesOf(c) == DOMAIN c.good \cup c.bad

\* The orders in which keys() may enumerate a set of names.
KeyOrders(S) ==
    {s \in [1..Cardinality(S) -> S] : \A m, n \in DOMAIN s : s[m] = s[n] => m = n}

ArgLists == UNION {[1..n -> PathIds] : n \in 0..MaxPaths}

----------------------------------------------------------------------------
\* A dict that keeps the first value stored under a name.
InsertKeepFirst(t, k, v) ==
    [n \in DOMAIN t \cup {k} |-> IF n \in DOMAIN t THEN t[n] ELSE v]

\* A dict rebound to the single new item instead of updated.
InsertRebind(t, k, v) == [n \in {k} |-> v]

\* A dict that refuses a value it already holds under another name.
InsertDedupValue(t, k, v) ==
    IF \E n \in DOMAIN t \ {k} : t[n] = v
    THEN t
    ELSE [n \in DOMAIN t \cup {k} |-> IF n = k THEN v ELSE t[n]]

\* dict item assignment, tensors[k] = v
Insert(t, k, v) == [n \in DOMAIN t \cup {k} |-> IF n = k THEN v ELSE t[n]]

\* A with block whose exit does not close the handle.
ReleaseLeak(hs, h) == hs

\* leaving the with block, normally or by exception: the handle is closed
Release(hs, h) == hs \ {h}

Init ==
    /\ argv \in ArgLists
    /\ files \in [Range(argv) -> FileContents]
    /\ tensors = EmptyDict
    /\ pc = "for_path"
    /\ i = 0
    /\ path = 0
    /\ f = 0
    /\ handles = {}
    /\ keys = <<>>
    /\ stdout = <<>>
    /\ error = ""
    /\ opens = <<>>
    /\ gets = 0
    /\ closed = <<>>
    /\ enum = <<>>
    /\ run = 1
    /\ prev = EmptyDict
    /\ prevEnum = <<>>

\* The outer loop raising a usage error when no path is given.
ForPathRequiresArg ==
    /\ pc = "for_path"
    /\ IF i < Len(argv)
       THEN /\ i' = i + 1
            /\ path' = argv[i + 1]
            /\ pc' = "open"
            /\ error' = error
       ELSE /\ pc' = IF argv = <<>> THEN "failed" ELSE "print"
            /\ error' = IF argv = <<>> THEN "usage" ELSE error
            /\ UNCHANGED <<i, path>>
    /\ UNCHANGED <<argv, files, tensors, f, handles, keys, stdout, opens,
                   gets, closed, enum, run, prev, prevEnum>>

\* The outer loop walking sys.argv from its end.
ForPathReversed ==
    /\ pc = "for_path"
    /\ IF i < Len(argv)
       THEN /\ i' = i + 1
            /\ path' = argv[Len(argv) - i]
            /\ pc' = "open"
       ELSE /\ pc' = "print"
            /\ UNCHANGED <<i, path>>
    /\ UNCHANGED <<argv, files, tensors, f, handles, keys, stdout, error,
                   opens, gets, closed, enum, run, prev, prevEnum>>

\* line 6: take the next path, or leave the loop when sys.argv is exhausted
ForPath ==
    /\ pc = "for_path"
    /\ IF i < Len(argv)
       THEN /\ i' = i + 1
            /\ path' = argv[i + 1]
            /\ pc' = "open"
       ELSE /\ pc' = "print"
            /\ UNCHANGED <<i, path>>
    /\ UNCHANGED <<argv, files, tensors, f, handles, keys, stdout, error,
                   opens, gets, closed, enum, run, prev, prevEnum>>

\* safe_open wrapped in a handler that skips a path it cannot open.
SafeOpenSkipInvalid ==
    /\ pc = "open"
    /\ opens' = Append(opens, path)
    /\ IF files[path].valid
       THEN /\ f' = i
            /\ handles' = handles \cup {i}
            /\ pc' = "keys"
       ELSE /\ pc' = "for_path"
            /\ UNCHANGED <<f, handles>>
    /\ UNCHANGED <<argv, files, tensors, i, path, keys, stdout, error, gets,
                   closed, enum, run, prev, prevEnum>>

\* line 7: safe_open; the exception raised for a bad path is not caught
SafeOpen ==
    /\ pc = "open"
    /\ opens' = Append(opens, path)
    /\ IF files[path].valid
       THEN /\ f' = i
            /\ handles' = handles \cup {i}
            /\ pc' = "keys"
            /\ error' = error
       ELSE /\ pc' = "failed"
            /\ error' = "open"
            /\ UNCHANGED <<f, handles>>
    /\ UNCHANGED <<argv, files, tensors, i, path, keys, stdout, gets, closed,
                   enum, run, prev, prevEnum>>

\* line 8: f.keys() is evaluated once, in an order the container chooses
Keys ==
    /\ pc = "keys"
    /\ keys' \in KeyOrders(NamesOf(files[path]))
    /\ enum' = Append(enum, keys')
    /\ pc' = "for_name"
    /\ UNCHANGED <<argv, files, tensors, i, path, f, handles, stdout, error,
                   opens, gets, closed, run, prev, prevEnum>>

\* The inner loop with a handler that skips an entry it cannot read.
ForNameSkipBad ==
    /\ pc = "for_name"
    /\ IF keys = <<>>
       THEN /\ handles' = Release(handles, f)
            /\ closed' = Append(closed, f)
            /\ f' = 0
            /\ pc' = "for_path"
            /\ UNCHANGED <<tensors, keys, gets>>
       ELSE LET k == Head(keys) IN
            IF k \in files[path].bad
            THEN /\ keys' = Tail(keys)
                 /\ UNCHANGED <<tensors, pc, f, handles, gets, closed>>
            ELSE /\ tensors' = Insert(tensors, k, files[path].good[k])
                 /\ keys' = Tail(keys)
                 /\ gets' = gets + 1
                 /\ UNCHANGED <<pc, f, handles, closed>>
    /\ UNCHANGED <<argv, files, i, path, stdout, error, opens, enum, run,
                   prev, prevEnum>>

\* The inner loop printing the mapping after every insertion.
ForNameVerbose ==
    /\ pc = "for_name"
    /\ IF keys = <<>>
       THEN /\ handles' = Release(handles, f)
            /\ closed' = Append(closed, f)
            /\ f' = 0
            /\ pc' = "for_path"
            /\ UNCHANGED <<tensors, keys, error, gets, stdout>>
       ELSE LET k == Head(keys) IN
            IF k \in files[path].bad
            THEN /\ handles' = Release(handles, f)
                 /\ closed' = Append(closed, f)
                 /\ f' = 0
                 /\ pc' = "failed"
                 /\ error' = "get_tensor"
                 /\ UNCHANGED <<tensors, keys, gets, stdout>>
            ELSE /\ tensors' = Insert(tensors, k, files[path].good[k])
                 /\ stdout' = Append(stdout, tensors')
                 /\ keys' = Tail(keys)
                 /\ gets' = gets + 1
                 /\ UNCHANGED <<pc, f, handles, error, closed>>
    /\ UNCHANGED <<argv, files, i, path, opens, enum, run, prev, prevEnum>>

\* The inner loop retrying a get_tensor that raised.
ForNameRetry ==
    /\ pc = "for_name"
    /\ IF keys = <<>>
       THEN /\ handles' = Release(handles, f)
            /\ closed' = Append(closed, f)
            /\ f' = 0
            /\ pc' = "for_path"
            /\ UNCHANGED <<tensors, keys, gets>>
       ELSE LET k == Head(keys) IN
            IF k \in files[path].bad
            THEN UNCHANGED <<tensors, keys, gets, pc, f, handles, closed>>
            ELSE /\ tensors' = Insert(tensors, k, files[path].good[k])
                 /\ keys' = Tail(keys)
                 /\ gets' = gets + 1
                 /\ UNCHANGED <<pc, f, handles, closed>>
    /\ UNCHANGED <<argv, files, i, path, stdout, error, opens, enum, run,
                   prev, prevEnum>>

\* lines 8-9: one iteration of the inner loop, or the end of the with block.
\* An exception of get_tensor leaves the with block too, which closes the
\* handle, and is not caught.
ForName ==
    /\ pc = "for_name"
    /\ IF keys = <<>>
       THEN /\ handles' = Release(handles, f)
            /\ closed' = Append(closed, f)
            /\ f' = 0
            /\ pc' = "for_path"
            /\ UNCHANGED <<tensors, keys, error, gets>>
       ELSE LET k == Head(keys) IN
            IF k \in files[path].bad
            THEN /\ handles' = Release(handles, f)
                 /\ closed' = Append(closed, f)
                 /\ f' = 0
                 /\ pc' = "failed"
                 /\ error' = "get_tensor"
                 /\ UNCHANGED <<tensors, keys, gets>>
            ELSE /\ tensors' = Insert(tensors, k, files[path].good[k])
                 /\ keys' = Tail(keys)
                 /\ gets' = gets + 1
                 /\ UNCHANGED <<pc, f, handles, error, closed>>
    /\ UNCHANGED <<argv, files, i, path, stdout, opens, enum, run, prev,
                   prevEnum>>

\* line 10
PrintTensors ==
    /\ pc = "print"
    /\ stdout' = Append(stdout, tensors)
    /\ pc' = "done"
    /\ UNCHANGED <<argv, files, tensors, i, path, f, handles, keys, error,
                   opens, gets, closed, enum, run, prev, prevEnum>>

Next == ForPath \/ SafeOpen \/ Keys \/ ForName \/ PrintTensors

Spec == Init /\ [][Next]_vars

\* The script is sequential: whenever it has a next statement it executes it.
FairSpec == Spec /\ WF_vars(Next)

\* The script is started again on the same arguments and the same files; a
\* new process begins with nothing of the old one but what it printed.
Rerun ==
    /\ pc = "done"
    /\ run < MaxRuns
    /\ run' = run + 1
    /\ prev' = stdout[1]
    /\ prevEnum' = enum
    /\ tensors' = EmptyDict
    /\ pc' = "for_path"
    /\ i' = 0
    /\ path' = 0
    /\ f' = 0
    /\ handles' = {}
    /\ keys' = <<>>
    /\ stdout' = <<>>
    /\ error' = ""
    /\ opens' = <<>>
    /\ gets' = 0
    /\ closed' = <<>>
    /\ enum' = <<>>
    /\ UNCHANGED <<argv, files>>

NextRepeat == Next \/ Rerun

SpecRepeat == Init /\ [][NextRepeat]_vars

Terminal == pc \in {"done", "failed"}

----------------------------------------------------------------------------
\* What the input says, independently of any run

\* Positions of argv whose container lists the name n.
Occurs(n) == {j \in DOMAIN argv : n \in NamesOf(files[argv[j]])}

Last(S) == CHOOSE j \in S : \A m \in S : m <= j

First(S) == CHOOSE j \in S : \A m \in S : j <= m

AllNames == UNION {NamesOf(files[argv[j]]) : j \in DOMAIN argv}

RECURSIVE NamesUpTo(_)
\* Number of (path, name) pairs in the first n paths.
NamesUpTo(n) ==
    IF n = 0 THEN 0
    ELSE NamesUpTo(n - 1) + Cardinality(NamesOf(files[argv[n]]))

Positions(n) == [j \in 1..n |-> j]

----------------------------------------------------------------------------
\* C1: after a successful run, a name that occurs in more than one container
\* is mapped to the value stored in the last container, in input order, that
\* holds it.
C1_LastWriteWins ==
    pc = "done" =>
        \A n \in Names :
            Cardinality(Occurs(n)) > 1 =>
                /\ n \in DOMAIN tensors
                /\ tensors[n] = files[argv[Last(Occurs(n))]].good[n]

C1_Witness ==
    /\ pc = "done"
    /\ \E n \in Names :
        /\ Cardinality(Occurs(n)) > 1
        /\ files[argv[First(Occurs(n))]].good[n] # tensors[n]
        /\ files[argv[Last(Occurs(n))]].good[n] = tensors[n]

\* C2: the printed mapping has exactly the names of all containers as its
\* keys, and a name held by a single container is mapped to that container's
\* value for it.
C2_UnionOfNames ==
    pc = "done" =>
        /\ Len(stdout) = 1
        /\ DOMAIN stdout[1] = AllNames
        /\ \A n \in Names : \A j \in DOMAIN argv :
              Occurs(n) = {j} => stdout[1][n] = files[argv[j]].good[n]

C2_Witness ==
    /\ pc = "done"
    /\ Len(argv) = 2
    /\ NamesOf(files[argv[1]]) # {}
    /\ NamesOf(files[argv[2]]) # {}
    /\ NamesOf(files[argv[1]]) \cap NamesOf(files[argv[2]]) = {}
    /\ DOMAIN stdout[1] = Names

\* C3: with no path given nothing is opened, no error is raised, the mapping
\* stays empty, the script can always take its next step until it has
\* printed, and what it prints is the empty mapping.
C3_EmptyInput ==
    argv = <<>> =>
        /\ opens = <<>>
        /\ handles = {}
        /\ error = ""
        /\ tensors = EmptyDict
        /\ pc \in {"for_path", "print", "done"}
        /\ pc # "done" => stdout = <<>> /\ ENABLED Next
        /\ pc = "done" => stdout = <<EmptyDict>>

C3_Witness == argv = <<>> /\ pc = "done" /\ stdout = <<EmptyDict>>

\* C4: a safe_open that fails, at whatever position, takes the script to the
\* failed state with nothing printed, and the failed state is final.
C4_OpenFailureFatal ==
    /\ [][/\ pc # "failed"
          /\ (pc = "open" /\ ~files[path].valid) =>
                (pc' = "failed" /\ stdout' = <<>> /\ tensors' = tensors)]_vars
    /\ [](pc = "failed" => stdout = <<>>)

C4_Witness ==
    /\ pc = "failed"
    /\ error = "open"
    /\ i = 2
    /\ DOMAIN tensors # {}
    /\ stdout = <<>>

\* C5: a second successful run on the same paths and the same containers
\* prints the same mapping as the first, whatever the orders in which the
\* containers enumerated their names in the two runs.
C5_Deterministic == (run > 1 /\ pc = "done") => stdout[1] = prev

C5_Witness ==
    /\ run > 1
    /\ pc = "done"
    /\ enum # prevEnum
    /\ stdout[1] = prev
    /\ DOMAIN prev = Names

\* C6: standard output is written at most once, and when it has been written
\* every path has been opened, every name of every container has been
\* retrieved, every handle has been released, and the script is done; a
\* script that is done has written exactly once.
C6_SinglePrintAtEnd ==
    /\ Len(stdout) <= 1
    /\ stdout # <<>> =>
          /\ pc = "done"
          /\ opens = argv
          /\ gets = NamesUpTo(Len(argv))
          /\ closed = Positions(Len(argv))
          /\ keys = <<>>
          /\ handles = {}
          /\ stdout[1] = tensors
    /\ pc = "done" => Len(stdout) = 1

C6_Witness ==
    /\ Len(stdout) = 1
    /\ Len(argv) = 2
    /\ gets > 2

\* C7: a get_tensor that fails takes the script to the failed state in that
\* very step, with no name inserted, no path opened and nothing printed; the
\* handle is released, and the failed state is final.
C7_RetrievalFailureFatal ==
    /\ [][/\ pc # "failed"
          /\ (pc = "for_name" /\ keys # <<>> /\ Head(keys) \in files[path].bad) =>
                /\ pc' = "failed"
                /\ tensors' = tensors
                /\ gets' = gets
                /\ opens' = opens
                /\ stdout' = <<>>]_vars
    /\ [](pc = "failed" => stdout = <<>> /\ Len(opens) = i)

C7_Witness ==
    /\ pc = "failed"
    /\ error = "get_tensor"
    /\ gets > 0
    /\ i < Len(argv)
    /\ DOMAIN tensors # {}
    /\ keys # <<>>

\* C8: at most one handle is open at any time, it is the one the with
\* statement holds, and none is open outside the with block: not when the
\* next path is taken or opened, not at the print, not in a final state.
C8_ScopedRelease ==
    /\ Cardinality(handles) <= 1
    /\ handles \subseteq {f}
    /\ pc \in {"for_path", "open", "print", "done", "failed"} =>
          /\ handles = {}
          /\ closed = Positions(Len(closed))
          /\ Len(closed) = IF pc = "open" \/ error = "open" THEN i - 1 ELSE i

C8_Witness ==
    /\ pc = "failed"
    /\ error = "get_tensor"
    /\ handles = {}
    /\ closed = <<1, 2>>

\* C9: the paths passed to safe_open so far are an initial part of argv, in
\* order and one call each, and when a path has been passed to safe_open all
\* the names of the paths before it have been retrieved and inserted.
C9_InputOrder ==
    /\ Len(opens) <= Len(argv)
    /\ opens = SubSeq(argv, 1, Len(opens))
    /\ Len(opens) = IF pc = "open" THEN i - 1 ELSE i
    /\ opens # <<>> =>
          /\ gets >= NamesUpTo(Len(opens) - 1)
          /\ \A j \in 1..(Len(opens) - 1) :
                NamesOf(files[argv[j]]) \subseteq DOMAIN tensors

C9_Witness ==
    /\ Len(opens) = 2
    /\ opens[1] # opens[2]
    /\ gets = 2
    /\ pc = "keys"

\* C10: every run reaches a final state, done or failed.
C10_Terminates == <>Terminal

C10_Witness ==
    /\ Terminal
    /\ Len(opens) = Len(argv)
    /\ Len(argv) = 2
    /\ Len(enum) = 2
====
